---------------------------- MODULE Spec2Model ----------------------------
(***************************************************************************)
(* Model of the MCA name availability and compliance engine,               *)
(* src/src/company_mca/tools/custom_tool.py (class MCANameChecker).        *)
(*                                                                         *)
(* A Python str is a sequence of one-character strings.  A call of         *)
(* MCANameChecker._run goes through the actions Start, Fetch or            *)
(* FetchRaises once per search variation, Check and Finish; its inputs     *)
(* (the raw name, what the conflict data source answers to each fetch,     *)
(* whether a fetch or the validator raises) are chosen by the environment. *)
(* Normalize and Validate are calls of the normalizer and of the validator *)
(* alone, on a wider set of raw names.                                     *)
(***************************************************************************)
EXTENDS Integers, Sequences, FiniteSets, TLC

(***************************************************************************)
(* Characters and the str methods the engine uses.                         *)
(*                                                                         *)
(* The characters of the model are those of Alphabet: printable ASCII, the *)
(* whitespace of Python, the printable characters of Latin-1 and a few     *)
(* other letters and digits, as far as a TLA+ string can hold them (not    *)
(* the backtick, nor U+00FF whose upper case is U+0178, nor the whitespace *)
(* U+2000 to U+200A, U+2028, U+2029, U+202F, U+205F and U+3000).  Nothing  *)
(* is defined on another character: every test and mapping goes through    *)
(* Char.                                                                   *)
(***************************************************************************)
LowerLetters == <<"a","b","c","d","e","f","g","h","i","j","k","l","m",
                  "n","o","p","q","r","s","t","u","v","w","x","y","z">>
UpperLetters == <<"A","B","C","D","E","F","G","H","I","J","K","L","M",
                  "N","O","P","Q","R","S","T","U","V","W","X","Y","Z">>
Digits == {"0","1","2","3","4","5","6","7","8","9"}
\* str.isspace(), \s of a str pattern: U+0009 to U+000D, U+001C to U+001F,
\* U+0020, U+0085, U+00A0, U+1680
Whitespace == {"\t", "\n", "", "\f", "\r", "", "", "", "",
               " ", "", " ", " "}
Punctuation == {"!", "\"", "#", "$", "%", "&", "'", "(", ")", "*", "+", ",",
                "-", ".", "/", ":", ";", "<", "=", ">", "?", "@", "[", "\\",
                "]", "^", "_", "{", "|", "}", "~"}
\* letters of Latin-1 that str.lower() and str.upper() map to one another,
\* place by place
OtherUpperLetters == <<"À","Á","Â","Ã","Ä","Å","Æ","Ç","È","É","Ê","Ë","Ì","Í","Î",
                       "Ï","Ð","Ñ","Ò","Ó","Ô","Õ","Ö","Ø","Ù","Ú","Û","Ü","Ý","Þ">>
OtherLowerLetters == <<"à","á","â","ã","ä","å","æ","ç","è","é","ê","ë","ì","í","î",
                       "ï","ð","ñ","ò","ó","ô","õ","ö","ø","ù","ú","û","ü","ý","þ">>
\* the other cased characters: sharp s, the ordinal
\* indicators, the micro sign and the mu it is upper-cased to, the digraphs of
\* U+01C4 to U+01C6
OtherCased == {"ß", "ª", "º", "µ", "Μ", "μ", "ǅ", "ǆ", "Ǆ"}
\* the other printable characters of Latin-1: none is a letter of a regex
\* class, a decimal digit or whitespace
OtherSymbols == {"¡", "¢", "£", "¤", "¥", "¦", "§", "¨", "©", "«", "¬",
                 "®", "¯", "°", "±", "²", "³", "´", "¶", "·", "¸", "¹",
                 "»", "¼", "½", "¾", "¿", "×", "÷"}
\* decimal digits outside ASCII (U+09E6, U+0BE6)
OtherDigits == {"০", "௦"}

Range(s) == {s[i] : i \in DOMAIN s}
LowerSet == Range(LowerLetters)
UpperSet == Range(UpperLetters)
Alphabet == LowerSet \cup UpperSet \cup Digits \cup Whitespace \cup Punctuation
                \cup Range(OtherUpperLetters) \cup Range(OtherLowerLetters)
                \cup OtherCased \cup OtherSymbols \cup OtherDigits
Char == [c \in Alphabet |-> c]

\* the classes of the regexes and of str.title()
IsSpace(c) == Char[c] \in Whitespace
IsAsciiAlnum(c) == Char[c] \in LowerSet \cup UpperSet \cup Digits
IsDecimal(c) == Char[c] \in Digits \cup OtherDigits
IsCased(c) == Char[c] \in LowerSet \cup UpperSet \cup Range(OtherUpperLetters)
                            \cup Range(OtherLowerLetters) \cup OtherCased

\* str.lower(), str.upper() and str.title() on one character.  Lower-casing
\* gives one character for every character of the alphabet; upper-casing and
\* title-casing may give two.
ToLowerMap ==
    [c \in UpperSet |-> LowerLetters[CHOOSE i \in 1..26 : UpperLetters[i] = c]]
        @@ [c \in Range(OtherUpperLetters) |->
               OtherLowerLetters[CHOOSE i \in DOMAIN OtherUpperLetters :
                                     OtherUpperLetters[i] = c]]
        @@ ("Μ" :> "μ") @@ ("ǅ" :> "ǆ") @@ ("Ǆ" :> "ǆ")
ToUpperMap ==
    [c \in LowerSet |-> <<UpperLetters[CHOOSE i \in 1..26 : LowerLetters[i] = c]>>]
        @@ [c \in Range(OtherLowerLetters) |->
               <<OtherUpperLetters[CHOOSE i \in DOMAIN OtherLowerLetters :
                                       OtherLowerLetters[i] = c]>>]
        @@ ("ß" :> <<"S", "S">>) @@ ("µ" :> <<"Μ">>) @@ ("μ" :> <<"Μ">>)
        @@ ("ǅ" :> <<"Ǆ">>) @@ ("ǆ" :> <<"Ǆ">>)
ToTitleMap ==
    [c \in LowerSet |-> <<UpperLetters[CHOOSE i \in 1..26 : LowerLetters[i] = c]>>]
        @@ [c \in Range(OtherLowerLetters) |->
               <<OtherUpperLetters[CHOOSE i \in DOMAIN OtherLowerLetters :
                                       OtherLowerLetters[i] = c]>>]
        @@ ("ß" :> <<"S", "s">>) @@ ("µ" :> <<"Μ">>) @@ ("μ" :> <<"Μ">>)
        @@ ("ǆ" :> <<"ǅ">>) @@ ("Ǆ" :> <<"ǅ">>)
LowerChar(c) == IF c \in DOMAIN ToLowerMap THEN ToLowerMap[c] ELSE Char[c]
UpperChar(c) == IF c \in DOMAIN ToUpperMap THEN ToUpperMap[c] ELSE <<Char[c]>>
TitleChar(c) == IF c \in DOMAIN ToTitleMap THEN ToTitleMap[c] ELSE <<Char[c]>>

\* parts[lo] \o ... \o parts[hi]
RECURSIVE Concat(_, _, _)
Concat(parts, lo, hi) ==
    IF lo > hi THEN <<>>
    ELSE IF lo = hi THEN parts[lo]
    ELSE LET mid == (lo + hi) \div 2
         IN  Concat(parts, lo, mid) \o Concat(parts, mid + 1, hi)

Lower(s) == [i \in DOMAIN s |-> LowerChar(s[i])]
Upper(s) == Concat([i \in DOMAIN s |-> UpperChar(s[i])], 1, Len(s))
\* str.title(): a character is title-cased when it does not follow a cased
\* character, lower-cased when it does
Title(s) == Concat([i \in DOMAIN s |->
                      IF i > 1 /\ IsCased(s[i-1])
                      THEN <<LowerChar(s[i])>> ELSE TitleChar(s[i])], 1, Len(s))

\* str.strip(): from the first character that is not whitespace to the last
LStrip(s) ==
    IF \A i \in DOMAIN s : IsSpace(s[i]) THEN <<>>
    ELSE LET first == CHOOSE i \in DOMAIN s :
                        ~IsSpace(s[i]) /\ \A m \in 1..(i - 1) : IsSpace(s[m])
         IN  SubSeq(s, first, Len(s))
RStrip(s) ==
    IF \A i \in DOMAIN s : IsSpace(s[i]) THEN <<>>
    ELSE LET last == CHOOSE i \in DOMAIN s :
                       ~IsSpace(s[i]) /\ \A m \in (i + 1)..Len(s) : IsSpace(s[m])
         IN  SubSeq(s, 1, last)
Strip(s) == LStrip(RStrip(s))

\* s.endswith(t), t in s, s.replace(' ', '')
EndsWith(s, t) == /\ Len(t) <= Len(s)
                  /\ SubSeq(s, Len(s) - Len(t) + 1, Len(s)) = t
Contains(s, t) ==
    \/ t = <<>>
    \/ \E i \in 0..(Len(s) - Len(t)) : s[i+1] = t[1] /\ SubSeq(s, i + 1, i + Len(t)) = t
RemoveSpaces(s) == SelectSeq(s, LAMBDA c : c # " ")

(***************************************************************************)
(* Normalizer: MCANameChecker._clean_company_name                          *)
(***************************************************************************)
suffixes == << <<"p","v","t"," ","l","t","d">>,
               <<"p","r","i","v","a","t","e"," ","l","i","m","i","t","e","d">>,
               <<"l","t","d">>,
               <<"l","i","m","i","t","e","d">>,
               <<"p","v","t">>,
               <<"p","r","i","v","a","t","e">> >>

\* one pass of the loop body of lines 49-51, for suffix number k
StripSuffix(cleaned, suffix) ==
    IF EndsWith(cleaned, suffix)
    THEN Strip(SubSeq(cleaned, 1, Len(cleaned) - Len(suffix)))
    ELSE cleaned

\* the for loop of lines 49-51: every suffix of the list is tried, in order,
\* on what the earlier ones left (the loop has no break)
RECURSIVE StripSuffixes(_, _)
StripSuffixes(cleaned, k) ==
    IF k > Len(suffixes) THEN cleaned
    ELSE StripSuffixes(StripSuffix(cleaned, suffixes[k]), k + 1)

\* re.sub(r'[^a-zA-Z0-9\s]', '', cleaned)
KeepAlnumSpace(s) ==
    SelectSeq(s, LAMBDA c : IsAsciiAlnum(c) \/ IsSpace(c))

CleanCompanyName(name) == Strip(KeepAlnumSpace(StripSuffixes(Lower(name), 1)))

(***************************************************************************)
(* Similarity scorer: fuzz.ratio of fuzzywuzzy, called at lines 91 and 122.*)
(* ratio(s1, s2) is 0 for a None argument, 100 for equal arguments, 0 for  *)
(* an empty argument, else int(round(100 * SequenceMatcher.ratio())), and  *)
(* SequenceMatcher.ratio() is 2.0 * M / T with T = len(s1) + len(s2).      *)
(* The SequenceMatcher is python-Levenshtein's when the build has it (M is *)
(* then the length of a longest common subsequence) and difflib's when it  *)
(* has not (M is the size of the Ratcliff/Obershelp matching blocks): the  *)
(* variable backend holds which.                                           *)
(***************************************************************************)
\* Python's None, where a str is expected
None == <<"None">>

Max(x, y) == IF x >= y THEN x ELSE y
Min(x, y) == IF x <= y THEN x ELSE y
SetMax(S) == CHOOSE x \in S : \A y \in S : y <= x
SetMin(S) == CHOOSE x \in S : \A y \in S : x <= y

\* the running maxima of v[lo..hi], starting from base
RECURSIVE PrefixMax(_, _, _, _)
PrefixMax(v, lo, hi, base) ==
    IF lo > hi THEN <<>>
    ELSE IF lo = hi THEN <<Max(base, v[lo])>>
    ELSE LET mid  == (lo + hi) \div 2
             left == PrefixMax(v, lo, mid, base)
         IN  left \o PrefixMax(v, mid + 1, hi, left[Len(left)])

\* one row of the longest-common-subsequence table, prev the row above:
\* row[j] = prev[j-1] + 1 if ai = b[j], else max(prev[j], row[j-1]); a row
\* never decreases, so it is the running maximum of its first operands
LcsRow(ai, b, prev) ==
    PrefixMax([j \in 1..Len(b) |->
                 IF ai = b[j] THEN (IF j = 1 THEN 0 ELSE prev[j-1]) + 1 ELSE prev[j]],
              1, Len(b), 0)

\* the last of the rows for a[lo..hi], below the row prev (the test of the
\* upper rows' length makes TLC compute them before it goes on)
RECURSIVE LcsRows(_, _, _, _, _)
LcsRows(a, b, lo, hi, prev) ==
    IF lo > hi THEN prev
    ELSE IF lo = hi THEN LcsRow(a[lo], b, prev)
    ELSE LET mid   == (lo + hi) \div 2
             upper == LcsRows(a, b, lo, mid, prev)
         IN  IF Len(upper) = Len(b) THEN LcsRows(a, b, mid + 1, hi, upper) ELSE upper

\* Levenshtein.ratio: (lensum - ldist) / lensum with substitution cost 2,
\* so lensum - ldist = 2 * LCS
LevenshteinMatches(a, b) ==
    IF a = <<>> \/ b = <<>> THEN 0
    ELSE LcsRows(a, b, 1, Len(a), [j \in 1..Len(b) |-> 0])[Len(b)]

\* SequenceMatcher.__chain_b with autojunk (the default): when b has 200
\* characters or more, those that occur more than len(b) // 100 + 1 times
\* are left out of the index of b
Popular(b) ==
    IF Len(b) < 200 THEN {}
    ELSE {c \in Range(b) :
            Cardinality({j \in DOMAIN b : b[j] = c}) > Len(b) \div 100 + 1}

\* length of the common run of a from i and b from j, inside a[..ahi], b[..bhi]
CommonLen(a, b, i, j, ahi, bhi) ==
    LET lim == Max(0, Min(ahi - i, bhi - j) + 1)
    IN  CHOOSE n \in 0..lim :
            /\ n = lim \/ a[i+n] # b[j+n]
            /\ \A m \in 0..(n - 1) : a[i+m] = b[j+m]

\* the same going backwards from i and j, down to alo and blo
CommonBack(a, b, i, j, alo, blo) ==
    LET lim == Max(0, Min(i - alo, j - blo) + 1)
    IN  CHOOSE n \in 0..lim :
            /\ n = lim \/ a[i-n] # b[j-n]
            /\ \A m \in 0..(n - 1) : a[i-m] = b[j-m]

\* the same as CommonLen over indexed characters only
IndexedLen(a, b, i, j, ahi, bhi, popular) ==
    LET lim == Max(0, Min(ahi - i, bhi - j) + 1)
    IN  CHOOSE n \in 0..lim :
            /\ n = lim \/ a[i+n] # b[j+n] \/ a[i+n] \in popular
            /\ \A m \in 0..(n - 1) : a[i+m] = b[j+m] /\ a[i+m] \notin popular

\* SequenceMatcher.find_longest_match (no junk): the longest block of indexed
\* characters, earliest in a then earliest in b, or the empty block at
\* (alo, blo); then extended at both ends by the characters that match,
\* indexed or not.  A longest block starts where the characters before it
\* do not continue it, so only those starts are measured.
FindLongestMatch(a, b, alo, ahi, blo, bhi, popular) ==
    LET starts == {p \in (alo..ahi) \X (blo..bhi) :
                     /\ a[p[1]] = b[p[2]]
                     /\ a[p[1]] \notin popular
                     /\ \/ p[1] = alo
                        \/ p[2] = blo
                        \/ a[p[1]-1] # b[p[2]-1]
                        \/ a[p[1]-1] \in popular}
        blocks == {<<IndexedLen(a, b, p[1], p[2], ahi, bhi, popular), p[1], p[2]>> :
                     p \in starts}
        bestsize == IF blocks = {} THEN 0 ELSE SetMax({m[1] : m \in blocks})
        besti == IF blocks = {} THEN alo
                 ELSE SetMin({m[2] : m \in {n \in blocks : n[1] = bestsize}})
        bestj == IF blocks = {} THEN blo
                 ELSE SetMin({m[3] : m \in {n \in blocks :
                                              n[1] = bestsize /\ n[2] = besti}})
        back  == CommonBack(a, b, besti - 1, bestj - 1, alo, blo)
        ahead == CommonLen(a, b, besti + bestsize, bestj + bestsize, ahi, bhi)
    IN  <<besti - back, bestj - back, back + bestsize + ahead>>

\* SequenceMatcher.get_matching_blocks, summed: the longest match, then the
\* same to its left and to its right
RECURSIVE DifflibMatches(_, _, _, _, _, _, _)
DifflibMatches(a, b, alo, ahi, blo, bhi, popular) ==
    IF alo > ahi \/ blo > bhi THEN 0
    ELSE LET m == FindLongestMatch(a, b, alo, ahi, blo, bhi, popular)
             i == m[1]
             j == m[2]
             k == m[3]
         IN  IF k = 0 THEN 0
             ELSE k + DifflibMatches(a, b, alo, i - 1, blo, j - 1, popular)
                    + DifflibMatches(a, b, i + k, ahi, j + k, bhi, popular)

\* utils.intr(100 * (2.0 * m / t)) = int(round(...)) in binary floating
\* point.  round() rounds a half to the even integer; of the halves k + 1/2
\* that 200 * m / t can be, the product is computed above the half for
\* k = 54 and below it for k = 57, and is rounded as if exact for the others.
HalvesComputedAbove == {54}
HalvesComputedBelow == {57}
Intr(m, t) ==
    LET q == (200 * m) \div t
        r == (200 * m) % t
    IN  IF 2 * r < t THEN q
        ELSE IF 2 * r > t THEN q + 1
        ELSE IF q \in HalvesComputedAbove THEN q + 1
        ELSE IF q \in HalvesComputedBelow THEN q
        ELSE IF q % 2 = 0 THEN q ELSE q + 1

FuzzRatio(lib, s1, s2) ==
    IF s1 = None \/ s2 = None THEN 0
    ELSE IF s1 = s2 THEN 100
    ELSE IF Len(s1) = 0 \/ Len(s2) = 0 THEN 0
    ELSE Intr(IF lib = "difflib"
              THEN DifflibMatches(s1, s2, 1, Len(s1), 1, Len(s2), Popular(s2))
              ELSE LevenshteinMatches(s1, s2),
              Len(s1) + Len(s2))

(***************************************************************************)
(* Conflict data source.  The engine reaches it through one call, line 68, *)
(* made once per search variation after a sleep of half a second (line     *)
(* 67).  The repository's own source is _mock_company_search; a registry   *)
(* fixture (a static list of records, returned for every query) stands for *)
(* any other source put behind that call.                                  *)
(***************************************************************************)
common_patterns == << <<"t","e","c","h">>,
                       <<"s","o","l","u","t","i","o","n","s">>,
                       <<"s","y","s","t","e","m","s">>,
                       <<"s","e","r","v","i","c","e","s">>,
                       <<"i","n","n","o","v","a","t","i","o","n","s">>,
                       <<"e","n","t","e","r","p","r","i","s","e","s">>,
                       <<"c","o","n","s","u","l","t","i","n","g">>,
                       <<"d","i","g","i","t","a","l">>,
                       <<"s","o","f","t","w","a","r","e">>,
                       <<"i","n","f","o">> >>

Indices(s) == [i \in 1..Len(s) |-> i]

\* cin is a random registration number that nothing reads: 0 here, and
\* ExtendFound numbers the records of a call
MockCompanySearch(lib, name) ==
    LET name_lower == Lower(name)
        hits == SelectSeq(common_patterns, LAMBDA p : Contains(name_lower, p))
        conflicts == [i \in 1..Len(hits) |->
            [company_name |-> Title(name) \o <<" ">> \o Title(hits[i]) \o
                 <<" ","P","r","i","v","a","t","e"," ","L","i","m","i","t","e","d">>,
             cin |-> 0,
             similarity |-> FuzzRatio(lib, name_lower,
                                      name_lower \o <<" ">> \o hits[i])]]
    IN  SubSeq(conflicts, 1, Min(3, Len(conflicts)))

MockRegistry == [kind |-> "mock"]
Fixture(names) == [kind |-> "fixture", names |-> names]

\* the call of line 68, when it returns
FetchCandidates(lib, registry, variation) ==
    IF registry.kind = "mock" THEN MockCompanySearch(lib, variation)
    ELSE [i \in 1..Len(registry.names) |->
             [company_name |-> registry.names[i], cin |-> 0]]

\* lines 58-63
SearchVariations(search_term) ==
    << search_term, RemoveSpaces(search_term), Upper(search_term), Title(search_term) >>

\* line 69: the records of one fetch go to the end of the pool, each numbered
\* by its place there
ExtendFound(found_companies, mock_results) ==
    found_companies \o [i \in 1..Len(mock_results) |->
        [mock_results[i] EXCEPT !.cin = Len(found_companies) + i]]

(***************************************************************************)
(* Conflict search: MCANameChecker._check_company_existence                *)
(***************************************************************************)
Get(d, key, default) == IF key \in DOMAIN d THEN d[key] ELSE default
SetSimilarity(company, similarity) == ("similarity" :> similarity) @@ company

\* line 122, for one candidate
Similarity(lib, name, company) ==
    FuzzRatio(lib, Lower(name), CleanCompanyName(Lower(company.company_name)))

IsExact(similarity) == similarity > 95
\* an `if` in place of the `elif` of line 126
IsSimilarWithoutElse(similarity) == similarity > 70
IsSimilar(similarity) == ~IsExact(similarity) /\ similarity > 70

\* an unstable sort: an element goes before the elements of equal key
SortInsertBeforeTies(sorted, e) ==
    LET n == Cardinality({i \in DOMAIN sorted :
                            sorted[i].similarity > e.similarity})
    IN  SubSeq(sorted, 1, n) \o <<e>> \o SubSeq(sorted, n + 1, Len(sorted))

\* list.sort(key = similarity, reverse = True): stable, so an element goes
\* after every element whose key is at least its own
SortInsert(sorted, e) ==
    LET n == Cardinality({i \in DOMAIN sorted :
                            sorted[i].similarity >= e.similarity})
    IN  SubSeq(sorted, 1, n) \o <<e>> \o SubSeq(sorted, n + 1, Len(sorted))

RECURSIVE SortBySimilarity(_)
SortBySimilarity(s) ==
    IF s = <<>> THEN <<>>
    ELSE SortInsert(SortBySimilarity(SubSeq(s, 1, Len(s) - 1)), s[Len(s)])

TopSimilar(similar_companies) ==
    SubSeq(similar_companies, 1, Min(5, Len(similar_companies)))

\* a record whose company_name is None makes line 119 raise AttributeError
Malformed(existing_companies) ==
    \E i \in DOMAIN existing_companies : existing_companies[i].company_name = None

\* the records the loop of line 118 goes through: all of them, or those before
\* the first one at which line 119 raises
Reached(existing_companies) ==
    IF Malformed(existing_companies)
    THEN LET first == CHOOSE i \in DOMAIN existing_companies :
                 /\ existing_companies[i].company_name = None
                 /\ \A j \in 1..(i - 1) : existing_companies[j].company_name # None
         IN  SubSeq(existing_companies, 1, first - 1)
    ELSE existing_companies

\* the similarity of every record reached, in the order of the loop
RECURSIVE ScoreFrom(_, _, _, _, _)
ScoreFrom(lib, name, existing_companies, k, done) ==
    IF k > Len(existing_companies) THEN done
    ELSE ScoreFrom(lib, name, existing_companies, k + 1,
                   Append(done, Similarity(lib, name, existing_companies[k])))

Scores(lib, name, existing_companies) ==
    ScoreFrom(lib, name, Reached(existing_companies), 1, <<>>)

\* lines 124-128, given the records reached and each one's similarity: the
\* records above 95, and the records above 70 that are not above 95, each with
\* its similarity, both in the order of the loop
ExactMatches(existing_companies, scores) ==
    LET exactIdx == SelectSeq(Indices(scores), LAMBDA i : IsExact(scores[i]))
    IN  [k \in 1..Len(exactIdx) |-> existing_companies[exactIdx[k]]]

SimilarAppended(existing_companies, scores) ==
    LET simIdx == SelectSeq(Indices(scores), LAMBDA i : IsSimilar(scores[i]))
    IN  [k \in 1..Len(simIdx) |->
            SetSimilarity(existing_companies[simIdx[k]], scores[simIdx[k]])]

\* the pool when the loop is left: line 127 writes the similarity into the
\* record itself, so every similar record reached carries it in the list that
\* the search returned as well (a value a mock record had from line 91 is
\* overwritten)
MarkSimilar(existing_companies, scores) ==
    [i \in DOMAIN existing_companies |->
        IF i \in DOMAIN scores /\ IsSimilar(scores[i])
        THEN SetSimilarity(existing_companies[i], scores[i])
        ELSE existing_companies[i]]

\* similar_companies when the loop is left: sorted by line 130, or as appended
\* when line 119 raised
SimilarCompanies(existing_companies, scores) ==
    IF Malformed(existing_companies)
    THEN SimilarAppended(existing_companies, scores)
    ELSE SortBySimilarity(SimilarAppended(existing_companies, scores))

\* line 133 without its second conjunct
ClassifyAvailableWithoutSimilar(existing_companies, scores) ==
    LET exact_matches     == ExactMatches(existing_companies, scores)
        similar_companies == SimilarCompanies(existing_companies, scores)
    IN  [available |-> Len(exact_matches) = 0,
         exact_matches |-> exact_matches,
         existing_companies |-> TopSimilar(similar_companies),
         total_found |-> Len(existing_companies)]

\* lines 132-137
Classify(existing_companies, scores) ==
    LET exact_matches     == ExactMatches(existing_companies, scores)
        similar_companies == SimilarCompanies(existing_companies, scores)
    IN  [available |-> Len(exact_matches) = 0 /\ Len(similar_companies) = 0,
         exact_matches |-> exact_matches,
         existing_companies |-> TopSimilar(similar_companies),
         total_found |-> Len(existing_companies)]

\* the except branch of lines 139-144
FailOpen(error) == [available |-> TRUE, error |-> error, existing_companies |-> <<>>]

\* lines 115-144, given what the search returned and the similarity of each
\* record reached
CheckCompanyExistence(existing_companies, scores) ==
    IF Malformed(existing_companies)
    THEN FailOpen("'NoneType' object has no attribute 'lower'")
    ELSE Classify(existing_companies, scores)

(***************************************************************************)
(* Convention validator: MCANameChecker._validate_naming_conventions       *)
(***************************************************************************)
prohibited_words == << <<"b","a","n","k">>,
                        <<"i","n","s","u","r","a","n","c","e">>,
                        <<"g","o","v","e","r","n","m","e","n","t">>,
                        <<"m","i","n","i","s","t","r","y">>,
                        <<"n","a","t","i","o","n","a","l">>,
                        <<"c","e","n","t","r","a","l">>,
                        <<"r","e","s","e","r","v","e">>,
                        <<"f","e","d","e","r","a","l">>,
                        <<"a","u","t","h","o","r","i","t","y">>,
                        <<"c","o","m","m","i","s","s","i","o","n">>,
                        <<"c","o","r","p","o","r","a","t","i","o","n"," ","o","f"," ","i","n","d","i","a">>,
                        <<"r","e","g","i","s","t","r","a","r">>,
                        <<"c","o","-","o","p","e","r","a","t","i","v","e">>,
                        <<"m","u","n","i","c","i","p","a","l">>,
                        <<"p","a","n","c","h","a","y","a","t">> >>
valid_suffixes == << <<"p","v","t"," ","l","t","d">>,
                      <<"p","r","i","v","a","t","e"," ","l","i","m","i","t","e","d">>,
                      <<"p","v","t","."," ","l","t","d",".">>,
                      <<"p","r","i","v","a","t","e"," ","l","i","m","i","t","e","d",".">>,
                      <<"l","i","m","i","t","e","d">>,
                      <<"l","t","d">>,
                      <<"l","t","d",".">> >>

MinNameLength == 3
MaxNameLength == 120
ErrorPenalty == 30
WarningPenalty == 10

\* lines 150-153
LengthErrors(name) ==
    IF Len(name) < MinNameLength
    THEN << [msg |-> "Company name too short (minimum 3 characters)"] >>
    ELSE IF Len(name) > MaxNameLength
    THEN << [msg |-> "Company name too long (maximum 120 characters)"] >>
    ELSE <<>>

\* lines 161-164
ProhibitedErrors(name) ==
    LET name_lower == Lower(name)
        hits == SelectSeq(prohibited_words, LAMBDA word : Contains(name_lower, word))
    IN  [i \in 1..Len(hits) |->
            [msg |-> "Prohibited word '{word}' found in name", word |-> hits[i]]]

\* lines 171-173
SuffixWarnings(name) ==
    IF \E i \in DOMAIN valid_suffixes : EndsWith(Lower(name), valid_suffixes[i])
    THEN <<>>
    ELSE << [msg |-> "Consider adding proper suffix (Pvt Ltd or Private Limited)"] >>

\* lines 175-176: re.search(r'[^a-zA-Z0-9\s\.\-&()]', name)
AllowedChar(c) ==
    IsAsciiAlnum(c) \/ IsSpace(c) \/ c \in {".", "-", "&", "(", ")"}
CharsetWarnings(name) ==
    IF \E i \in DOMAIN name : ~AllowedChar(name[i])
    THEN << [msg |-> "Special characters may cause issues during incorporation"] >>
    ELSE <<>>

\* lines 178-179: re.search(r'^\d', name)
DigitErrors(name) ==
    IF name # <<>> /\ IsDecimal(name[1])
    THEN << [msg |-> "Company name cannot start with a number"] >>
    ELSE <<>>

\* lines 181-182: re.search(r'\s{2,}', name)
SpaceWarnings(name) ==
    IF \E i \in 1..(Len(name) - 1) : IsSpace(name[i]) /\ IsSpace(name[i+1])
    THEN << [msg |-> "Multiple consecutive spaces found"] >>
    ELSE <<>>

\* lines 184-185
StripWarnings(name) ==
    IF name # Strip(name)
    THEN << [msg |-> "Leading or trailing spaces detected"] >>
    ELSE <<>>

\* line 191 without max(0, ...)
ScoreUnclamped(errors, warnings) ==
    100 - Len(errors) * ErrorPenalty - Len(warnings) * WarningPenalty

\* line 191
Score(errors, warnings) ==
    Max(0, 100 - Len(errors) * ErrorPenalty - Len(warnings) * WarningPenalty)

ValidateNamingConventions(name) ==
    LET errors   == LengthErrors(name) \o ProhibitedErrors(name) \o DigitErrors(name)
        warnings == SuffixWarnings(name) \o CharsetWarnings(name) \o
                    SpaceWarnings(name) \o StripWarnings(name)
    IN  [is_valid |-> Len(errors) = 0,
         errors   |-> errors,
         warnings |-> warnings,
         score    |-> Score(errors, warnings)]

(***************************************************************************)
(* Recommendation synthesizer: MCANameChecker._get_recommendation          *)
(***************************************************************************)
MsgExact == "Name not available - exact match found in MCA database"
MsgSimilar == "Name may be rejected - {similar_count} similar companies found"
MsgInvalid == "Name validation failed - {error_count} naming convention errors"
MsgWarnings == "Name available with minor issues - {warning_count} warnings to consider"
MsgCompliant == "Name appears available and compliant with MCA guidelines"

\* lines 202-210
ValidationRecommendation(validation) ==
    IF ~validation.is_valid
    THEN [msg |-> MsgInvalid, count |-> Len(validation.errors)]
    ELSE IF validation.warnings # <<>>
    THEN [msg |-> MsgWarnings, count |-> Len(validation.warnings)]
    ELSE [msg |-> MsgCompliant]

\* the branches of lines 202-210 tried before those of lines 195-200
GetRecommendationValidationFirst(availability, validation) ==
    IF ~validation.is_valid \/ validation.warnings # <<>>
    THEN ValidationRecommendation(validation)
    ELSE IF ~availability.available /\ Get(availability, "exact_matches", <<>>) # <<>>
    THEN [msg |-> MsgExact]
    ELSE IF ~availability.available /\ Get(availability, "existing_companies", <<>>) # <<>>
    THEN [msg |-> MsgSimilar, count |-> Len(availability.existing_companies)]
    ELSE [msg |-> MsgCompliant]

GetRecommendation(availability, validation) ==
    IF ~availability.available /\ Get(availability, "exact_matches", <<>>) # <<>>
    THEN [msg |-> MsgExact]
    ELSE IF ~availability.available /\ Get(availability, "existing_companies", <<>>) # <<>>
    THEN [msg |-> MsgSimilar, count |-> Len(availability.existing_companies)]
    ELSE ValidationRecommendation(validation)

(***************************************************************************)
(* Engine facade: MCANameChecker._run                                      *)
(***************************************************************************)
\* a local that the call never assigned
Unset == [unset |-> TRUE]
IsSet(v) == "unset" \notin DOMAIN v

\* lines 29-36
EngineResult(company_name, cleaned, availability, validation) ==
    [name               |-> company_name,
     cleaned_name       |-> cleaned,
     is_available       |-> availability.available,
     existing_companies |-> availability.existing_companies,
     validation         |-> validation,
     recommendation     |-> GetRecommendation(availability, validation)]

\* lines 38-43
ErrorResult(company_name, error) ==
    [error |-> error, name |-> company_name, is_available |-> FALSE]

(***************************************************************************)
(* Inputs.  A raw name is a concatenation of at most MaxTokens tokens; the  *)
(* names given to a whole call of _run are those of at most MaxWords engine *)
(* tokens, and those of at most one engine token with the suffix " Ltd".    *)
(* Each fetch of a call is answered by one of Sources, or raises.           *)
(***************************************************************************)
MaxTokens == 3
MaxWords == 2

Bank == <<"B","a","n","k">>
BankLtd == Bank \o <<" ","L","t","d">>
NationalBank == <<"N","a","t","i","o","n","a","l"," ","B","a","n","k">>
\* a word that is too long for a company name by itself
LongWord == [i \in 1..(MaxNameLength + 1) |-> "x"]

\* words, suffixes, punctuation, a digit and a space of ASCII; a no-break
\* space, a letter and a digit from beyond ASCII
Tokens == { <<"T","e","c","h">>,
            <<" ","L","t","d">>,
            <<" ","P","r","i","v","a","t","e">>,
            NationalBank,
            <<".">>, <<"!">>, <<"9">>, <<" ">>,
            <<" ">>, <<"É">>, <<"০">> }
EngineTokens == { <<"T","e","c","h">>,
                  <<" ","I","n","f","o">>,
                  Bank }

RECURSIVE NamesOf(_, _)
NamesOf(tokens, n) ==
    IF n = 0 THEN {<<>>}
    ELSE LET shorter == NamesOf(tokens, n - 1)
         IN  shorter \cup {p \o t : p \in shorter, t \in tokens}
\* ... and the long word, alone or before one token
RawNames == NamesOf(Tokens, MaxTokens) \cup {LongWord \o n : n \in NamesOf(Tokens, 1)}
\* ... and the names of at most one engine token with " Ltd" after or before
EngineNames ==
    NamesOf(EngineTokens, MaxWords)
        \cup {n \o <<" ","L","t","d">> : n \in NamesOf(EngineTokens, 1)}
        \cup {<<" ","L","t","d">> \o n : n \in NamesOf(EngineTokens, 1)}

\* the repository's source, a registry that holds one company twice, and one
\* that holds a record without a name
Sources == { MockRegistry,
             Fixture(<<BankLtd, BankLtd>>),
             Fixture(<<BankLtd, None>>) }

Variations == DOMAIN SearchVariations(<<>>)
Backends == {"difflib", "levenshtein"}

(***************************************************************************)
(* State: the inputs and the locals of one call.  The engine object has no  *)
(* field that a call writes (base_url and headers are set at lines 16-21    *)
(* and only read), so calls in progress at the same time share nothing and  *)
(* one call is followed alone; what can change under a call is the data     *)
(* source, between one fetch and the next.                                  *)
(***************************************************************************)
VARIABLES
    backend,              \* which SequenceMatcher the build gives fuzzywuzzy
    pc,                   \* "idle", then "cleaned", "validated", or
                          \* "searching", "checked", "returned"
                          \* (or "raised": the call ended in an exception)
    company_name,         \* the name argument
    cleaned_name,         \* line 25, or what _clean_company_name returned
    registry,             \* the data source that answered the latest fetch
    fetched,              \* how many variations the loop of line 65 has done
    failing,              \* the variations whose fetch raised
    found_companies,      \* line 57, extended at line 69; the list object
                          \* that line 75 returns
    existing_companies,   \* line 113: that same list
    scores,               \* line 122, per record the loop of line 118 reached
    exact_matches,        \* line 115, appended to at line 125
    similar_companies,    \* line 116, appended to at line 128, sorted at 130
    availability_result,  \* line 26
    defect,               \* whether the validator raised
    validation_result,    \* line 27, or what the validator returned
    result                \* what _run returned

vars == << backend, pc, company_name, cleaned_name, registry, fetched, failing,
           found_companies, existing_companies, scores, exact_matches,
           similar_companies, availability_result, defect, validation_result,
           result >>

Init ==
    /\ backend \in Backends
    /\ pc = "idle"
    /\ company_name = <<>>
    /\ cleaned_name = <<>>
    /\ registry = MockRegistry
    /\ fetched = 0
    /\ failing = {}
    /\ found_companies = <<>>
    /\ existing_companies = <<>>
    /\ scores = <<>>
    /\ exact_matches = <<>>
    /\ similar_companies = <<>>
    /\ availability_result = Unset
    /\ defect = FALSE
    /\ validation_result = Unset
    /\ result = Unset

\* a call of _clean_company_name(raw)
Normalize ==
    /\ pc = "idle"
    /\ pc' = "cleaned"
    /\ \E raw \in RawNames :
        /\ company_name' = raw
        /\ cleaned_name' = CleanCompanyName(raw)
    /\ UNCHANGED << backend, registry, fetched, failing, found_companies,
                    existing_companies, scores, exact_matches, similar_companies,
                    availability_result, defect, validation_result, result >>

\* a call of _validate_naming_conventions(raw)
Validate ==
    /\ pc = "idle"
    /\ pc' = "validated"
    /\ \E raw \in RawNames :
        /\ company_name' = raw
        /\ validation_result' = ValidateNamingConventions(raw)
    /\ UNCHANGED << backend, cleaned_name, registry, fetched, failing,
                    found_companies, existing_companies, scores, exact_matches,
                    similar_companies, availability_result, defect, result >>

\* a call of _run(raw), up to the loop of line 65: line 25, and lines 113 and
\* 57-63 of the calls it makes
Start ==
    /\ pc = "idle"
    /\ pc' = "searching"
    /\ \E raw \in EngineNames :
        /\ company_name' = raw
        /\ cleaned_name' = CleanCompanyName(raw)
    /\ UNCHANGED << backend, registry, fetched, failing, found_companies,
                    existing_companies, scores, exact_matches, similar_companies,
                    availability_result, defect, validation_result, result >>

\* one turn of the loop of line 65 in which the fetch returns: after the sleep
\* of line 67 the data source is reg, whatever it was at the fetch before
Fetch(reg) ==
    /\ pc = "searching"
    /\ fetched < Len(SearchVariations(cleaned_name))
    /\ registry' = reg
    /\ fetched' = fetched + 1
    /\ found_companies' = ExtendFound(found_companies,
            FetchCandidates(backend, reg,
                            SearchVariations(cleaned_name)[fetched + 1]))
    /\ UNCHANGED << backend, pc, company_name, cleaned_name, failing,
                    existing_companies, scores, exact_matches, similar_companies,
                    availability_result, defect, validation_result, result >>

\* one turn of the loop in which the fetch raises: lines 71-73 print the
\* exception and go on
FetchRaises ==
    /\ pc = "searching"
    /\ fetched < Len(SearchVariations(cleaned_name))
    /\ fetched' = fetched + 1
    /\ failing' = failing \cup {fetched + 1}
    /\ UNCHANGED << backend, pc, company_name, cleaned_name, registry,
                    found_companies, existing_companies, scores, exact_matches,
                    similar_companies, availability_result, defect,
                    validation_result, result >>

\* the rest of _check_company_existence: line 75 returns the pool to line 113,
\* lines 115-137 go through it, lines 139-144 catch what they raise
Check ==
    /\ pc = "searching"
    /\ fetched = Len(SearchVariations(cleaned_name))
    /\ pc' = "checked"
    /\ LET found_scores == Scores(backend, cleaned_name, found_companies)
       IN  /\ scores' = found_scores
           /\ existing_companies' = MarkSimilar(found_companies, found_scores)
           /\ found_companies' = MarkSimilar(found_companies, found_scores)
           /\ exact_matches' = ExactMatches(found_companies, found_scores)
           /\ similar_companies' = SimilarCompanies(found_companies, found_scores)
           /\ availability_result' =
                  CheckCompanyExistence(found_companies, found_scores)
    /\ UNCHANGED << backend, company_name, cleaned_name, registry, fetched,
                    failing, defect, validation_result, result >>

\* the rest of _run: line 27, then lines 29-36, or lines 38-43 when the
\* validator raised
Finish ==
    /\ pc = "checked"
    /\ pc' = "returned"
    /\ \E validatorRaises \in BOOLEAN :
        LET validation == ValidateNamingConventions(company_name)
        IN  /\ defect' = validatorRaises
            /\ validation_result' = IF validatorRaises THEN Unset ELSE validation
            /\ result' =
                   IF validatorRaises
                   THEN ErrorResult(company_name, "validator defect")
                   ELSE EngineResult(company_name, cleaned_name,
                                     availability_result, validation)
    /\ UNCHANGED << backend, company_name, cleaned_name, registry, fetched,
                    failing, found_companies, existing_companies, scores,
                    exact_matches, similar_companies, availability_result >>

Next ==
    \/ Normalize
    \/ Validate
    \/ Start
    \/ \E reg \in Sources : Fetch(reg)
    \/ FetchRaises
    \/ Check
    \/ Finish

Spec == Init /\ [][Next]_vars

(***************************************************************************)
(* Properties                                                              *)
(***************************************************************************)
\* the conflict search returned
Checked == pc \in {"checked", "returned"}
\* ... after going through every record it was given
Searched == Checked /\ ~Malformed(existing_companies)
\* the call returned the full result of lines 29-36
Completed == pc = "returned" /\ ~defect

ExactOf(availability) == Get(availability, "exact_matches", <<>>)
Cins(list) == {list[k].cin : k \in DOMAIN list}

\* what the normalizer would return if it stopped at the first suffix found
StripFirstSuffix(cleaned) ==
    LET hits == {k \in DOMAIN suffixes : EndsWith(cleaned, suffixes[k])}
    IN  IF hits = {} THEN cleaned ELSE StripSuffix(cleaned, suffixes[SetMin(hits)])
FirstMatchKey(name) == Strip(KeepAlnumSpace(StripFirstSuffix(Lower(name))))

\* C1: the normalizer removes the first suffix of the list that the
\* lower-cased name ends with, and no other one after it.
C1_StripsOnlyFirstSuffix ==
    pc = "cleaned" => cleaned_name = FirstMatchKey(company_name)

\* C2: a failure of the validator during a call is not turned into a returned
\* result: the call ends in that failure.
C2_ValidatorFailurePropagates ==
    (pc # "idle" /\ defect) => pc = "raised"

\* C3: when a fetch of the data source raised, or the conflict search itself
\* did, the returned result says the name is available and carries a
\* diagnostic of the failure.
C3_SourceFailureRecorded ==
    (Completed /\ (failing # {} \/ Malformed(existing_companies)))
        => (result.is_available /\ "error" \in DOMAIN result)

\* C4: a candidate that the conflict search scored (every candidate of the
\* pool, when the search did not raise) is an exact match iff its similarity to
\* the query key is above 95, a similar match (before the list is cut) iff it
\* is above 70 and at most 95, neither otherwise, and never both.
C4_Classification ==
    Checked =>
        /\ Searched => DOMAIN scores = DOMAIN existing_companies
        /\ Searched => exact_matches = availability_result.exact_matches
        /\ \A i \in DOMAIN scores :
            LET s == FuzzRatio(backend, cleaned_name,
                               CleanCompanyName(existing_companies[i].company_name))
                inExact   == i \in Cins(exact_matches)
                inSimilar == i \in Cins(similar_companies)
            IN  /\ scores[i] = s
                /\ inExact <=> (s > 95)
                /\ inSimilar <=> (s > 70 /\ s <= 95)
                /\ (s <= 70) => (~inExact /\ ~inSimilar)
                /\ ~(inExact /\ inSimilar)

\* a pool with a similar candidate, listed as similar and not as exact
C4_Witness ==
    /\ Searched
    /\ \E i \in DOMAIN existing_companies :
        /\ scores[i] > 70 /\ scores[i] <= 95
        /\ i \in Cins(similar_companies)
        /\ i \notin Cins(exact_matches)

\* C5: the conflict search says available exactly when no candidate of the
\* pool scores above 70, both match lists are then empty, and in every result
\* available = (no exact match and no similar match), the cut to 5 included.
C5_Available ==
    Checked =>
        LET exact   == ExactOf(availability_result)
            similar == availability_result.existing_companies
        IN  /\ availability_result.available = (exact = <<>> /\ similar = <<>>)
            /\ Searched =>
                 (availability_result.available
                    <=> \A i \in DOMAIN scores : scores[i] <= 70)

C5_Witness ==
    /\ Searched
    /\ Len(similar_companies) > 5
    /\ Len(availability_result.existing_companies) = 5
    /\ ~availability_result.available

\* a list of records is ordered by similarity descending, equal similarities
\* in the order of the data source
Ordered(list, sim(_)) ==
    \A k, l \in DOMAIN list :
        k < l => \/ sim(list[k]) > sim(list[l])
                 \/ sim(list[k]) = sim(list[l]) /\ list[k].cin < list[l].cin

\* C6, as claimed: every match list, exact matches as well as similar ones,
\* has at most 5 entries and is ordered by similarity descending, ties in the
\* order of the data source.
C6_EveryListTopFive ==
    Searched =>
        LET exact == availability_result.exact_matches
            top   == availability_result.existing_companies
        IN  /\ Len(exact) <= 5
            /\ Len(top) <= 5
            /\ Ordered(exact, LAMBDA c : scores[c.cin])
            /\ Ordered(top, LAMBDA c : c.similarity)

\* C6, amended: the list of similar matches has at most 5 entries, the
\* highest-scoring similar candidates of the pool, ordered by similarity
\* descending with ties in the order of the data source; the exact matches are
\* every candidate above 95, in the order of the data source, however many.
C6_SimilarTopFive ==
    Searched =>
        LET exact == availability_result.exact_matches
            top   == availability_result.existing_companies
        IN  /\ Len(top) <= 5
            /\ Ordered(top, LAMBDA c : c.similarity)
            /\ \A k \in DOMAIN top :
                 /\ top[k].similarity = scores[top[k].cin]
                 /\ top[k].similarity > 70 /\ top[k].similarity <= 95
            /\ \A i \in DOMAIN scores :
                 (scores[i] > 70 /\ scores[i] <= 95 /\ i \notin Cins(top))
                    => /\ Len(top) = 5
                       /\ \/ scores[i] < top[5].similarity
                          \/ scores[i] = top[5].similarity /\ i > top[5].cin
            /\ \A k, l \in DOMAIN exact : k < l => exact[k].cin < exact[l].cin
            /\ Cins(exact) = {i \in DOMAIN scores : scores[i] > 95}

\* more than 5 similar candidates, one of those cut tied with one kept
C6_Witness ==
    /\ Searched
    /\ Len(similar_companies) > 5
    /\ similar_companies[5].similarity = similar_companies[6].similarity
    /\ \E k \in 1..4 : similar_companies[k].similarity > similar_companies[k+1].similarity

\* C7: the recommendation is the message of the first branch that applies:
\* exact matches, then similar matches (with their number), then validation
\* errors (with their number), then warnings (with their number), then
\* compliant; an exact match with validation errors gives the exact message.
C7_RecommendationPriority ==
    Completed =>
        LET a == availability_result
            v == validation_result
            r == result.recommendation
        IN  /\ IF ~a.available /\ ExactOf(a) # <<>>
               THEN r = [msg |-> MsgExact]
               ELSE IF ~a.available /\ a.existing_companies # <<>>
               THEN r = [msg |-> MsgSimilar, count |-> Len(a.existing_companies)]
               ELSE IF ~v.is_valid
               THEN r = [msg |-> MsgInvalid, count |-> Len(v.errors)]
               ELSE IF v.warnings # <<>>
               THEN r = [msg |-> MsgWarnings, count |-> Len(v.warnings)]
               ELSE r = [msg |-> MsgCompliant]
            /\ (ExactOf(a) # <<>> /\ ~v.is_valid) => r.msg = MsgExact

C7_Witness ==
    /\ Completed
    /\ ExactOf(availability_result) # <<>>
    /\ ~validation_result.is_valid
    /\ result.recommendation = [msg |-> MsgExact]

\* C8: when the pool holds a record whose normalized name is the normalized
\* key of the raw name, the result of the call is not available, reports that
\* record among its conflicting companies, and recommends with the exact-match
\* message ("Name not available ...").
C8_ExactMatchReported ==
    (Completed /\ Searched) =>
        \A i \in DOMAIN existing_companies :
            CleanCompanyName(existing_companies[i].company_name)
                    = CleanCompanyName(company_name)
                => /\ ~result.is_available
                   /\ i \in Cins(result.existing_companies)
                            \cup Cins(Get(result, "exact_matches", <<>>))
                   /\ result.recommendation.msg = MsgExact

\* C9: is_valid = (no errors), whatever the warnings; the score is
\* max(0, 100 - 30 * errors - 10 * warnings), so it is in 0..100 and is 100
\* exactly when there are neither errors nor warnings.
C9_ValidationResult ==
    IsSet(validation_result) =>
        LET v == validation_result
            e == Len(v.errors)
            w == Len(v.warnings)
        IN  /\ v.is_valid = (e = 0)
            /\ v.score = Max(0, 100 - 30 * e - 10 * w)
            /\ v.score \in 0..100
            /\ (v.score = 100) <=> (e = 0 /\ w = 0)

\* a name whose penalties exceed 100
C9_Witness ==
    /\ pc = "validated"
    /\ 30 * Len(validation_result.errors) + 10 * Len(validation_result.warnings) > 100
    /\ validation_result.score = 0

\* C10: normalizing a normalized key gives the same key.
C10_Idempotent ==
    pc = "cleaned" => CleanCompanyName(cleaned_name) = cleaned_name

====
